---- MODULE Spec2Model ----
(***************************************************************************)
(* Model of the WealthTrack mobile client: the dashboard screen            *)
(* (src/app/(tabs)/index.tsx, DashboardScreen), its portfolio fetches and  *)
(* the analytics block computed by useMemo from the stored snapshot; the   *)
(* session kept by AuthProvider (src/contexts/AuthContext.tsx): startup,   *)
(* login, register, logout, the navigation effect, the token storage; the  *)
(* assets screen (src/app/(tabs)/assets.tsx) and the add-asset form        *)
(* (src/app/add-asset.tsx).                                                *)
(*                                                                         *)
(* Numbers.  The code computes on JavaScript numbers.  A number is         *)
(* modelled as a record                                                    *)
(*     [k, n, d, rn, rd]                                                   *)
(* where k is "fin", "nan", "pinf" or "ninf"; a finite number is the real  *)
(* n/d + sqrt(rn/rd) (both fractions in lowest terms, d > 0, rd > 0,       *)
(* rn >= 0, a radicand that is a perfect square folded into n/d).  The     *)
(* IEEE special values are kept because the analytics block divides by a   *)
(* server-supplied total; rounding of finite results is not modelled.      *)
(***************************************************************************)
EXTENDS Integers, Sequences, FiniteSets, TLC

VARIABLES
    portfolioData,  \* useState<PortfolioValue | null>
    analytics,      \* the value held by useMemo(..., [portfolioData])
    loading,        \* useState(true)
    refreshing,     \* useState(false)
    inflight,       \* the calls of fetchPortfolioData awaiting their response
    issued,         \* how many calls of fetchPortfolioData were made
    storedReq,      \* which call's response portfolioData holds (0: none)
    headers,        \* headers[r]: the token call r of fetchPortfolioData was sent with
    alert,          \* the dialog Alert.alert has put on the screen ("none": no dialog)
    firstCall,      \* the snapshot and the result of the first run of the analytics block
    user,           \* AuthProvider: useState<User | null>(null)
    token,          \* AuthProvider: useState<string | null>(null)
    isLoading,      \* AuthProvider: useState(true)
    route,          \* the route on the screen (useSegments)
    effectDue,      \* the navigation effect has to run: one of its dependencies changed
    checkAuth,      \* where checkAuthState is
    signIn,         \* the call of login or register in progress, or null
    signOut,        \* a call of logout awaits tokenStorage.remove
    secureStore,    \* the item auth_token of SecureStore, or null
    live,           \* backend: the tokens it accepts
    expiredSeen,    \* backend: it has rejected a request of the logged-in user
                    \* for an expired token
    form,           \* AddAssetScreen: the texts of symbol, name, quantity, purchasePrice
    errors,         \* AddAssetScreen: useState of the validation errors
    formLoading,    \* AddAssetScreen: useState(false), loading
    created,        \* the createAsset request awaiting its response, or null
    shownAssets,    \* AssetsScreen: assets, useState<Asset[]>([]): the ids of the list
    portfolioValue, \* AssetsScreen: useState<PortfolioValue | null>(null)
    assetsLoading,  \* AssetsScreen: useState(true), loading
    assetsRefreshing,    \* AssetsScreen: useState(false), refreshing
    deleteDialogVisible, \* AssetsScreen: useState(false)
    assetToDelete,  \* AssetsScreen: useState<Asset | null>(null)
    fetchCalls,     \* the calls of fetchAssetsAndPrices, each with where it is
    deleteCall,     \* the call of handleDeleteConfirm awaiting deleteAsset, or null
    serverAssets,   \* backend: the ids of the user's assets
    deleted         \* the ids for which deleteAsset has resolved

\* AuthProvider, the device's secure storage and the backend
authVars == <<user, token, isLoading, route, effectDue, checkAuth, signIn,
              signOut, secureStore, live, expiredSeen>>

\* AddAssetScreen
formVars == <<form, errors, formLoading, created>>

\* AssetsScreen and the backend's list of assets
assetsVars == <<shownAssets, portfolioValue, assetsLoading, assetsRefreshing,
                deleteDialogVisible, assetToDelete, fetchCalls, deleteCall,
                serverAssets, deleted>>

\* the screens next to the dashboard
screenVars == <<formVars, assetsVars>>

\* the variables no handler of the dashboard screen writes
offDashboard == <<firstCall, authVars, screenVars>>

vars == <<portfolioData, analytics, loading, refreshing,
          inflight, issued, storedReq, headers, alert, offDashboard>>

(***************************************************************************)
(* Bounds of the model                                                     *)
(***************************************************************************)
\* longest holdings list of a snapshot handed to the analytics block
MaxHoldings == 4
\* longest holdings list the server returns in the dashboard specification
DashHoldings == 1
\* longest holdings list of the snapshot the analytics block is run on again
RepeatHoldings == 2
\* number of portfolio fetches the dashboard issues
MaxFetches == 4
\* number of portfolio fetches the dashboard issues in the specification of
\* the session
SessionFetches == 1
\* number of calls of fetchAssetsAndPrices the assets screen makes
MaxAssetFetches == 3

(***************************************************************************)
(* Integer helpers                                                         *)
(***************************************************************************)
Abs(i) == IF i < 0 THEN -i ELSE i

RECURSIVE GCD(_, _)
GCD(a, b) == IF b = 0 THEN a ELSE GCD(b, a % b)

RECURSIVE ISqrtIter(_, _, _)
ISqrtIter(m, lo, hi) ==
    IF lo >= hi THEN lo
    ELSE LET mid == (lo + hi + 1) \div 2
         IN  IF mid <= m \div mid THEN ISqrtIter(m, mid, hi)
                                  ELSE ISqrtIter(m, lo, mid - 1)

\* floor of the square root of a natural number
ISqrt(m) == ISqrtIter(m, 0, m)

(***************************************************************************)
(* JavaScript numbers                                                      *)
(***************************************************************************)
NaN == [k |-> "nan", n |-> 0, d |-> 1, rn |-> 0, rd |-> 1]
PosInf == [k |-> "pinf", n |-> 0, d |-> 1, rn |-> 0, rd |-> 1]
NegInf == [k |-> "ninf", n |-> 0, d |-> 1, rn |-> 0, rd |-> 1]

\* the rational a/b, b # 0, in lowest terms
Rat(a, b) ==
    LET g == GCD(Abs(a), Abs(b))
        s == IF b < 0 THEN -1 ELSE 1
    IN  [k |-> "fin", n |-> (s * a) \div g, d |-> (s * b) \div g,
         rn |-> 0, rd |-> 1]

R(i) == Rat(i, 1)

IsFin(x) == x.k = "fin"
IsRat(x) == x.k = "fin" /\ x.rn = 0

\* the finite number a/b + sqrt(p/q), p >= 0, q > 0, for p/q = 0 or p/q not
\* the square of a rational
Root(a, b, p, q) ==
    LET g == GCD(p, q)
    IN  IF p = 0 THEN Rat(a, b)
        ELSE [Rat(a, b) EXCEPT !.rn = p \div g, !.rd = q \div g]

\* the finite number a/b + sqrt(p/q), p >= 0, q > 0: the root of a square
\* is folded into the rational part
Fin(a, b, p, q) ==
    LET g == GCD(p, q)
        sp == ISqrt(p \div g)
        sq == ISqrt(q \div g)
    IN  IF p = 0 THEN Rat(a, b)
        ELSE IF sp * sp = p \div g /\ sq * sq = q \div g
             THEN Rat(a * sq + b * sp, b * sq)
             ELSE Root(a, b, p, q)

\* sign of a finite number: the root part is never negative
Sign(x) ==
    IF x.rn = 0
    THEN (IF x.n > 0 THEN 1 ELSE IF x.n < 0 THEN -1 ELSE 0)
    ELSE IF x.n >= 0 THEN 1
         ELSE \* sqrt(rn/rd) against -n/d : compare the squares
              LET l == x.rn * x.d * x.d
                  r == x.n * x.n * x.rd
              IN  IF l > r THEN 1 ELSE IF l < r THEN -1 ELSE 0

\* unary minus, on rationals and the special values
Neg(x) ==
    CASE x.k = "nan" -> NaN
      [] x.k = "pinf" -> NegInf
      [] x.k = "ninf" -> PosInf
      [] IsRat(x) -> Rat(-x.n, x.d)

\* x + y; at most one operand carries a root
Add(x, y) ==
    CASE x.k = "nan" \/ y.k = "nan" -> NaN
      [] x.k = "pinf" -> IF y.k = "ninf" THEN NaN ELSE PosInf
      [] x.k = "ninf" -> IF y.k = "pinf" THEN NaN ELSE NegInf
      [] x.k = "fin" /\ y.k = "pinf" -> PosInf
      [] x.k = "fin" /\ y.k = "ninf" -> NegInf
      [] x.k = "fin" /\ y.k = "fin" /\ y.rn = 0 ->
            Root(x.n * y.d + y.n * x.d, x.d * y.d, x.rn, x.rd)
      [] x.k = "fin" /\ y.k = "fin" /\ x.rn = 0 /\ y.rn # 0 ->
            Root(x.n * y.d + y.n * x.d, x.d * y.d, y.rn, y.rd)

Sub(x, y) == Add(x, Neg(y))

\* x * y; a root is only ever scaled by a non-negative rational
Mul(x, y) ==
    CASE x.k = "nan" \/ y.k = "nan" -> NaN
      [] x.k # "fin" /\ y.k # "fin" ->
            IF x.k = y.k THEN PosInf ELSE NegInf
      [] x.k # "fin" /\ y.k = "fin" ->
            IF Sign(y) = 0 THEN NaN
            ELSE IF (Sign(y) > 0) = (x.k = "pinf") THEN PosInf ELSE NegInf
      [] x.k = "fin" /\ y.k # "fin" ->
            IF Sign(x) = 0 THEN NaN
            ELSE IF (Sign(x) > 0) = (y.k = "pinf") THEN PosInf ELSE NegInf
      [] x.k = "fin" /\ y.k = "fin" /\ x.rn = 0 /\ y.rn = 0 ->
            Rat(x.n * y.n, x.d * y.d)
      [] x.k = "fin" /\ y.k = "fin" /\ x.rn # 0 /\ y.rn = 0 /\ y.n >= 0 ->
            Root(x.n * y.n, x.d * y.d, x.rn * y.n * y.n, x.rd * y.d * y.d)
      [] x.k = "fin" /\ y.k = "fin" /\ x.rn = 0 /\ y.rn # 0 /\ x.n >= 0 ->
            Root(x.n * y.n, x.d * y.d, y.rn * x.n * x.n, y.rd * x.d * x.d)

\* x / y on rationals and special values: division by zero yields
\* Infinity, -Infinity or NaN, it does not throw
Div(x, y) ==
    CASE x.k = "nan" \/ y.k = "nan" -> NaN
      [] x.k # "fin" /\ y.k # "fin" -> NaN
      [] x.k # "fin" /\ y.k = "fin" ->
            IF (Sign(y) >= 0) = (x.k = "pinf") THEN PosInf ELSE NegInf
      [] x.k = "fin" /\ y.k # "fin" -> R(0)
      [] IsRat(x) /\ IsRat(y) /\ y.n = 0 ->
            IF x.n > 0 THEN PosInf ELSE IF x.n < 0 THEN NegInf ELSE NaN
      [] IsRat(x) /\ IsRat(y) /\ y.n # 0 -> Rat(x.n * y.d, x.d * y.n)

\* Math.pow(x, 2) on rationals
Pow2(x) == Mul(x, x)

\* Math.sqrt
Sqrt(x) ==
    CASE x.k = "nan" \/ x.k = "ninf" -> NaN
      [] x.k = "pinf" -> PosInf
      [] IsRat(x) /\ x.n < 0 -> NaN
      [] IsRat(x) /\ x.n >= 0 -> Fin(0, 1, x.n, x.d)

\* x < y on numbers; false when either is NaN
Less(x, y) ==
    CASE x.k = "nan" \/ y.k = "nan" -> FALSE
      [] x.k = "pinf" -> FALSE
      [] x.k = "ninf" -> y.k # "ninf"
      [] x.k = "fin" /\ y.k = "pinf" -> TRUE
      [] x.k = "fin" /\ y.k = "ninf" -> FALSE
      [] x.k = "fin" /\ y.k = "fin" /\ x.rn = 0 /\ y.rn = 0 ->
            x.n * y.d < y.n * x.d
      [] x.k = "fin" /\ y.k = "fin" /\ x.rn = 0 /\ y.rn # 0 ->
            \* x - y.rat < sqrt(y.root)
            LET t == Rat(x.n * y.d - y.n * x.d, x.d * y.d)
            IN  t.n < 0 \/ t.n * t.n * y.rd < y.rn * t.d * t.d
      [] x.k = "fin" /\ y.k = "fin" /\ x.rn # 0 /\ y.rn = 0 ->
            \* sqrt(x.root) < y - x.rat
            LET t == Rat(y.n * x.d - x.n * y.d, x.d * y.d)
            IN  t.n > 0 /\ x.rn * t.d * t.d < t.n * t.n * x.rd

LessEq(x, y) == x.k # "nan" /\ y.k # "nan" /\ ~Less(y, x)

\* Math.min(x, y)
MathMin(x, y) ==
    IF x.k = "nan" \/ y.k = "nan" THEN NaN
    ELSE IF Less(y, x) THEN y ELSE x

\* Math.max(x, y)
MathMax2(x, y) ==
    IF x.k = "nan" \/ y.k = "nan" THEN NaN
    ELSE IF Less(x, y) THEN y ELSE x

\* the maximum of the first k arguments
RECURSIVE MathMaxFirst(_, _)
MathMaxFirst(s, k) ==
    IF k = 0 THEN NegInf ELSE MathMax2(MathMaxFirst(s, k - 1), s[k])

\* Math.max(...s): -Infinity for no argument
MathMax(s) == MathMaxFirst(s, Len(s))

(***************************************************************************)
(* Portfolio snapshots: the PortfolioValue a fetch resolves with           *)
(***************************************************************************)
\* the value of a reference that holds nothing (null)
Null == [null |-> TRUE]

\* AssetType, in a fixed order
AssetTypes == <<"STOCK", "CRYPTO", "ETF", "BOND", "OTHER">>

\* purchase price of every modelled holding
PurchasePrices == {10}
\* quantity and current unit price of a modelled holding: a worthless
\* position (-100%), a gaining one (+10%), an unchanged one twice as big (0%)
Positions == {<<1, 0>>, <<1, 11>>, <<2, 10>>}

\* AssetWithPrice: the backend derives cost, currentValue, gainLoss and
\* gainLossPercent from quantity, purchasePrice and currentPrice
Holding(id, type, quantity, purchasePrice, currentPrice) ==
    [id |-> id, type |-> type, quantity |-> quantity,
     purchasePrice |-> purchasePrice, currentPrice |-> currentPrice,
     cost |-> R(quantity * purchasePrice),
     currentValue |-> R(quantity * currentPrice),
     gainLoss |-> R(quantity * currentPrice - quantity * purchasePrice),
     gainLossPercent |->
        Div(Mul(R(quantity * currentPrice - quantity * purchasePrice), R(100)),
            R(quantity * purchasePrice))]

\* the sum of currentValue over the first k holdings
RECURSIVE SumValues(_, _)
SumValues(assets, k) ==
    IF k = 0 THEN R(0)
    ELSE Add(SumValues(assets, k - 1), assets[k].currentValue)

\* PortfolioValue: the backend sends totalValue as the sum of currentValue
Snapshot(assets) ==
    [totalValue |-> SumValues(assets, Len(assets)), assets |-> assets]

\* The types of a list of len holdings, as indices into AssetTypes.  The
\* type of a holding is one already used by an earlier holding or the next
\* unused one: the analytics block uses a type only as a grouping key, so
\* every list is covered up to renaming of types.
RECURSIVE TypeChoices(_)
TypeChoices(len) ==
    IF len = 0 THEN {<<>>}
    ELSE LET used(ts) == {ts[i] : i \in 1..Len(ts)}
             next(ts) == IF Cardinality(used(ts)) < Len(AssetTypes)
                         THEN {Cardinality(used(ts)) + 1} ELSE {}
         IN  UNION {{Append(ts, t) : t \in used(ts) \cup next(ts)} :
                    ts \in TypeChoices(len - 1)}

\* the first k holdings of the list with types ts, positions ps and
\* purchase prices pp; a holding's id is its place in the list
RECURSIVE HoldingList(_, _, _, _)
HoldingList(ts, ps, pp, k) ==
    IF k = 0 THEN <<>>
    ELSE Append(HoldingList(ts, ps, pp, k - 1),
                Holding(k, AssetTypes[ts[k]], ps[k][1], pp[k], ps[k][2]))

\* the snapshots with len holdings
SnapshotsOf(len) ==
    {Snapshot(HoldingList(ts, ps, pp, len)) :
        ts \in TypeChoices(len),
        ps \in [1..len -> Positions],
        pp \in [1..len -> PurchasePrices]}

SnapshotsUpTo(maxLen) == UNION {SnapshotsOf(len) : len \in 0..maxLen}

(***************************************************************************)
(* The analytics block of DashboardScreen (useMemo)                        *)
(***************************************************************************)
\* the comparator of an ascending sort
CompareReturnAscending(a, b) == Sub(a.gainLossPercent, b.gainLossPercent)

\* b.gainLossPercent - a.gainLossPercent : the comparator of the sort
CompareReturn(a, b) == Sub(b.gainLossPercent, a.gainLossPercent)

\* insert x into a sorted list: x goes before the first element the
\* comparator places after it, behind every element it ties with
\* an insertion that puts x before the elements it ties with
InsertBeforeTies(s, x) ==
    LET after == {p \in 1..Len(s) : Sign(CompareReturn(x, s[p])) <= 0}
        at == IF after = {} THEN Len(s) + 1
              ELSE CHOOSE p \in after : \A q \in after : p <= q
    IN  SubSeq(s, 1, at - 1) \o <<x>> \o SubSeq(s, at, Len(s))

InsertStable(s, x) ==
    LET after == {p \in 1..Len(s) : Sign(CompareReturn(x, s[p])) < 0}
        at == IF after = {} THEN Len(s) + 1
              ELSE CHOOSE p \in after : \A q \in after : p <= q
    IN  SubSeq(s, 1, at - 1) \o <<x>> \o SubSeq(s, at, Len(s))

\* the first k elements of assets, sorted
RECURSIVE SortFirst(_, _)
SortFirst(assets, k) ==
    IF k = 0 THEN <<>> ELSE InsertStable(SortFirst(assets, k - 1), assets[k])

\* [...assets].sort(compare): Array.prototype.sort is stable
SortByReturn(assets) == SortFirst(assets, Len(assets))

\* portfolioData.assets.sort(compare): the stored array is the receiver, and
\* sort orders its receiver in place
AssetsAfterSortInPlace(assets) ==
    LET arrays == [stored |-> assets]
        sortedArrays == [arrays EXCEPT !.stored = SortByReturn(arrays.stored)]
    IN  sortedArrays.stored

\* portfolioData.assets once [...portfolioData.assets].sort(compare) has run:
\* the spread makes a new array, and sort orders its receiver in place
AssetsAfterSort(assets) ==
    LET arrays == [stored |-> assets, copy |-> assets]
        sortedArrays == [arrays EXCEPT !.copy = SortByReturn(arrays.copy)]
    IN  sortedArrays.stored

\* the reduce over the first k holdings, starting from 0
RECURSIVE SumReturns(_, _)
SumReturns(assets, k) ==
    IF k = 0 THEN R(0)
    ELSE Add(SumReturns(assets, k - 1), assets[k].gainLossPercent)

\* the sum of gainLossPercent * currentValue over the first k holdings
RECURSIVE SumWeighted(_, _)
SumWeighted(assets, k) ==
    IF k = 0 THEN R(0)
    ELSE Add(SumWeighted(assets, k - 1),
             Mul(assets[k].gainLossPercent, assets[k].currentValue))

\* a mean weighted by position size
AvgReturnWeighted(assets) ==
    Div(SumWeighted(assets, Len(assets)), SumValues(assets, Len(assets)))

\* assets.reduce((sum, a) => sum + a.gainLossPercent, 0) / assets.length
AvgReturn(assets) == Div(SumReturns(assets, Len(assets)), R(Len(assets)))

RECURSIVE SumSquares(_, _, _)
SumSquares(assets, avg, k) ==
    IF k = 0 THEN R(0)
    ELSE Add(SumSquares(assets, avg, k - 1),
             Pow2(Sub(assets[k].gainLossPercent, avg)))

\* the sample variance: divisor length - 1
VarianceSample(assets, avg) ==
    Div(SumSquares(assets, avg, Len(assets)), R(Len(assets) - 1))

\* reduce(sum + Math.pow(a.gainLossPercent - avgReturn, 2), 0) / length
Variance(assets, avg) ==
    Div(SumSquares(assets, avg, Len(assets)), R(Len(assets)))

Volatility(assets, avg) == Sqrt(Variance(assets, avg))

\* a Record<string, number> is a sequence of entries in insertion order
HasKey(obj, key) == \E i \in 1..Len(obj) : obj[i].key = key
Get(obj, key) == obj[CHOOSE i \in 1..Len(obj) : obj[i].key = key].value
Put(obj, key, value) ==
    IF HasKey(obj, key)
    THEN [i \in 1..Len(obj) |->
            IF obj[i].key = key THEN [key |-> key, value |-> value] ELSE obj[i]]
    ELSE Append(obj, [key |-> key, value |-> value])
Keys(obj) == [i \in 1..Len(obj) |-> obj[i].key]
Values(obj) == [i \in 1..Len(obj) |-> obj[i].value]

\* typeDistribution[asset.type] = asset.currentValue: the last holding of a type wins
AddToTypeOverwriting(dist, asset) ==
    Put(dist, asset.type, asset.currentValue)

\* typeDistribution[asset.type] = (typeDistribution[asset.type] || 0) + asset.currentValue
AddToType(dist, asset) ==
    Put(dist, asset.type,
        Add(IF HasKey(dist, asset.type) /\ Sign(Get(dist, asset.type)) # 0
            THEN Get(dist, asset.type) ELSE R(0),
            asset.currentValue))

\* the forEach over the first k holdings
RECURSIVE DistributeFirst(_, _)
DistributeFirst(assets, k) ==
    IF k = 0 THEN <<>>
    ELSE AddToType(DistributeFirst(assets, k - 1), assets[k])

TypeDistribution(assets) == DistributeFirst(assets, Len(assets))

\* Math.max(...Object.values(typeDistribution)) / portfolioData.totalValue
Concentration(dist, totalValue) == Div(MathMax(Values(dist)), totalValue)

\* weights of the two scores
VolatilityWeight == 5
ConcentrationWeight == 50
TypeWeight == 20
SpreadWeight == 30
ScoreCap == 100

\* Math.min(100, (volatility * 5) + (concentration * 50))
RiskScore(volatility, concentration) ==
    MathMin(R(ScoreCap),
            Add(Mul(volatility, R(VolatilityWeight)),
                Mul(concentration, R(ConcentrationWeight))))

\* Math.min(100, (numTypes * 20) + ((1 - concentration) * 30))
DiversificationScore(numTypes, concentration) ==
    MathMin(R(ScoreCap),
            Add(Mul(R(numTypes), R(TypeWeight)),
                Mul(Sub(R(1), concentration), R(SpreadWeight))))

\* assets.filter(a => a.gainLoss >= 0).length
GainersOrEven(assets) ==
    Cardinality({i \in 1..Len(assets) : Sign(assets[i].gainLoss) >= 0})

\* assets.filter(a => a.gainLoss > 0).length
Gainers(assets) ==
    Cardinality({i \in 1..Len(assets) : Sign(assets[i].gainLoss) > 0})
\* assets.filter(a => a.gainLoss < 0).length
Losers(assets) ==
    Cardinality({i \in 1..Len(assets) : Sign(assets[i].gainLoss) < 0})

\* sorted[0]
TopPerformer(sorted) == sorted[1]
\* sorted[sorted.length - 1]
WorstPerformer(sorted) == sorted[Len(sorted)]

\* what the formulas of the second branch give on no holdings
EmptyAnalyticsComputed ==
    [topPerformer |-> Null, worstPerformer |-> Null,
     avgReturn |-> NaN, volatility |-> NaN, typeDistribution |-> <<>>,
     riskScore |-> NaN, diversificationScore |-> NegInf,
     totalAssets |-> 0, totalGainers |-> 0, totalLosers |-> 0]

\* the result of the first branch: no snapshot, or no holdings
EmptyAnalytics ==
    [topPerformer |-> Null, worstPerformer |-> Null,
     avgReturn |-> R(0), volatility |-> R(0), typeDistribution |-> <<>>,
     riskScore |-> R(0), diversificationScore |-> R(0),
     totalAssets |-> 0, totalGainers |-> 0, totalLosers |-> 0]

\* the value useMemo computes from portfolioData
Analytics(data) ==
    IF data = Null \/ Len(data.assets) = 0 THEN EmptyAnalytics
    ELSE LET assets == data.assets
             sorted == SortByReturn(assets)
             avgReturn == AvgReturn(assets)
             volatility == Volatility(assets, avgReturn)
             typeDistribution == TypeDistribution(assets)
             concentration == Concentration(typeDistribution, data.totalValue)
             numTypes == Len(Keys(typeDistribution))
         IN  [topPerformer |-> TopPerformer(sorted),
              worstPerformer |-> WorstPerformer(sorted),
              avgReturn |-> avgReturn,
              volatility |-> volatility,
              typeDistribution |-> typeDistribution,
              riskScore |-> RiskScore(volatility, concentration),
              diversificationScore |-> DiversificationScore(numTypes, concentration),
              totalAssets |-> Len(assets),
              totalGainers |-> Gainers(assets),
              totalLosers |-> Losers(assets)]

(***************************************************************************)
(* getAssetDistribution of DashboardScreen: the top holdings by value      *)
(***************************************************************************)
\* slice(0, 6)
TopHoldings == 6

\* { ...asset, percentage: (asset.currentValue / totalValue) * 100 }
WithPercentage(asset, totalValue) ==
    asset @@ [percentage |-> Mul(Div(asset.currentValue, totalValue), R(100))]

\* b.currentValue - a.currentValue : the comparator of the sort
CompareValue(a, b) == Sub(b.currentValue, a.currentValue)

\* insert x into a list sorted by value, behind every element it ties with
InsertByValue(s, x) ==
    LET after == {p \in 1..Len(s) : Sign(CompareValue(x, s[p])) < 0}
        at == IF after = {} THEN Len(s) + 1
              ELSE CHOOSE p \in after : \A q \in after : p <= q
    IN  SubSeq(s, 1, at - 1) \o <<x>> \o SubSeq(s, at, Len(s))

RECURSIVE SortFirstByValue(_, _)
SortFirstByValue(items, k) ==
    IF k = 0 THEN <<>>
    ELSE InsertByValue(SortFirstByValue(items, k - 1), items[k])

\* .sort((a, b) => b.currentValue - a.currentValue)
SortByValue(items) == SortFirstByValue(items, Len(items))

\* the arrays getAssetDistribution works on: map makes a new array of new
\* objects, sort orders that array in place
DistributionArrays(data) ==
    LET arrays == [stored |-> data.assets,
                   mapped |-> [i \in 1..Len(data.assets) |->
                                 WithPercentage(data.assets[i], data.totalValue)]]
    IN  [arrays EXCEPT !.mapped = SortByValue(arrays.mapped)]

\* the list getAssetDistribution returns
GetAssetDistribution(data) ==
    IF data = Null \/ Len(data.assets) = 0 THEN <<>>
    ELSE LET sorted == DistributionArrays(data).mapped
         IN  SubSeq(sorted, 1, IF Len(sorted) < TopHoldings
                               THEN Len(sorted) ELSE TopHoldings)

\* portfolioData.assets once getAssetDistribution has run
AssetsAfterDistribution(data) == DistributionArrays(data).stored

\* the stored snapshot once a render has computed the analytics and the
\* distribution from it
AfterRender(data) ==
    IF data = Null \/ Len(data.assets) = 0 THEN data
    ELSE LET analysed == [data EXCEPT !.assets = AssetsAfterSort(data.assets)]
         IN  [analysed EXCEPT !.assets = AssetsAfterDistribution(analysed)]

(***************************************************************************)
(* AuthProvider (contexts/AuthContext.tsx), the token storage and the      *)
(* request interceptors (services/auth.ts, services/prices.ts)             *)
(***************************************************************************)
\* the token a session before this run has left in SecureStore, and the
\* token the backend answers a login or a registration with
SavedToken == [jwt |-> "t0"]
FreshToken == [jwt |-> "t1"]
\* the user of the account
TheUser == [email |-> "u1"]

\* tokenStorage.get: the stored value, or null when SecureStore throws
TokenGet(stored) == {stored, Null}

\* tokenStorage.set: what SecureStore holds once the call has resolved: the
\* token, or (SecureStore throws, the error is logged) what it held before
TokenSet(stored, value) == {value, stored}

\* tokenStorage.remove: what SecureStore holds once the call has resolved:
\* nothing, or (SecureStore throws, the error is logged) what it held before
TokenRemove(stored) == {Null, stored}

\* request interceptor: the Authorization header carries the stored token, and
\* there is no such header when nothing is stored
Interceptor(stored) ==
    IF stored = Null THEN Null ELSE [scheme |-> "Bearer", credentials |-> stored]

\* backend: the request carries a token it accepts
Authorized(header) == header # Null /\ header.credentials \in live

\* segments[0] === '(auth)'
InAuthGroup(r) == r \in {"(auth)/login", "(auth)/register"}

\* the mounted provider: the first render, checkAuthState called by the mount
\* effect, the navigation effect returned at isLoading; "/" is the dashboard
InitProvider ==
    /\ user = Null
    /\ token = Null
    /\ isLoading = TRUE
    /\ route = "(tabs)"
    /\ effectDue = FALSE
    /\ checkAuth = [at |-> "get"]
    /\ signIn = Null
    /\ signOut = FALSE
    /\ expiredSeen = FALSE

(***************************************************************************)
(* AddAssetScreen (app/add-asset.tsx): the form and its validation.  A     *)
(* text is a sequence of characters.                                       *)
(***************************************************************************)
WhiteSpace == {" "}
DecimalDigits == <<"0", "1", "2", "3", "4", "5", "6", "7", "8", "9">>
IsDigit(c) == \E i \in 1..Len(DecimalDigits) : DecimalDigits[i] = c
DigitValue(c) == (CHOOSE i \in 1..Len(DecimalDigits) : DecimalDigits[i] = c) - 1

\* String.prototype.trim
RECURSIVE TrimStart(_)
TrimStart(text) ==
    IF text = <<>> \/ Head(text) \notin WhiteSpace THEN text
    ELSE TrimStart(Tail(text))

RECURSIVE TrimEnd(_)
TrimEnd(text) ==
    IF text = <<>> \/ text[Len(text)] \notin WhiteSpace THEN text
    ELSE TrimEnd(SubSeq(text, 1, Len(text) - 1))

Trim(text) == TrimEnd(TrimStart(text))

\* String.prototype.toUpperCase, on the letters of the model
ToUpperCase(text) ==
    [i \in 1..Len(text) |-> IF text[i] = "a" THEN "A" ELSE text[i]]

\* the number of digits a text begins with
RECURSIVE DigitRun(_)
DigitRun(text) ==
    IF text = <<>> \/ ~IsDigit(Head(text)) THEN 0
    ELSE 1 + DigitRun(Tail(text))

\* the natural number written by a text of digits
RECURSIVE DigitsValue(_)
DigitsValue(text) ==
    IF text = <<>> THEN 0
    ELSE 10 * DigitsValue(SubSeq(text, 1, Len(text) - 1))
           + DigitValue(text[Len(text)])

RECURSIVE PowerOfTen(_)
PowerOfTen(k) == IF k = 0 THEN 1 ELSE 10 * PowerOfTen(k - 1)

\* parseFloat: leading white space is skipped, the longest prefix that is a
\* decimal literal (sign, digits, point, digits) is the result, and a text
\* without such a prefix gives NaN.  Exponents and "Infinity" are not
\* among the texts of the model.
ParseFloat(text) ==
    LET trimmed == TrimStart(text)
        signed == trimmed # <<>> /\ Head(trimmed) \in {"-", "+"}
        negative == trimmed # <<>> /\ Head(trimmed) = "-"
        unsigned == IF signed THEN Tail(trimmed) ELSE trimmed
        intLen == DigitRun(unsigned)
        rest == SubSeq(unsigned, intLen + 1, Len(unsigned))
        pointed == rest # <<>> /\ Head(rest) = "."
        fracLen == IF pointed THEN DigitRun(Tail(rest)) ELSE 0
        mantissa == DigitsValue(SubSeq(unsigned, 1, intLen)
                                  \o (IF pointed THEN SubSeq(Tail(rest), 1, fracLen)
                                                 ELSE <<>>))
    IN  IF intLen + fracLen = 0 THEN NaN
        ELSE Rat(IF negative THEN -mantissa ELSE mantissa, PowerOfTen(fracLen))

\* the texts typed into symbol and name, and into quantity and purchasePrice
NameTexts == {<<>>, <<" ">>, <<"a">>, <<" ", "a", " ">>}
NumberTexts ==
    {<<>>, <<" ">>, <<"0">>, <<"2">>, <<"-", "2">>, <<".">>, <<".", "5">>,
     <<"a">>, <<"2", "a">>}

NoErrors == [symbol |-> "", name |-> "", quantity |-> "", purchasePrice |-> ""]
EmptyForm == [symbol |-> <<>>, name |-> <<>>, quantity |-> <<>>,
              purchasePrice |-> <<>>]

\* the screens as they are mounted, and the asset the user has
InitScreens ==
    /\ form = EmptyForm
    /\ errors = NoErrors
    /\ formLoading = FALSE
    /\ created = Null
    /\ shownAssets = <<>>
    /\ portfolioValue = Null
    /\ assetsLoading = TRUE
    /\ assetsRefreshing = FALSE
    /\ deleteDialogVisible = FALSE
    /\ assetToDelete = Null
    /\ fetchCalls = <<>>
    /\ deleteCall = Null
    /\ serverAssets = <<[id |-> 1]>>
    /\ deleted = {}

\* validateForm: the errors it sets; the form is valid when there is none
ValidateForm(f) ==
    [symbol |-> IF Trim(f.symbol) = <<>> THEN "Symbol is required" ELSE "",
     name |-> IF Trim(f.name) = <<>> THEN "Name is required" ELSE "",
     quantity |->
        IF f.quantity = <<>> \/ LessEq(ParseFloat(f.quantity), R(0))
        THEN "Quantity must be greater than 0" ELSE "",
     purchasePrice |->
        IF f.purchasePrice = <<>> \/ Less(ParseFloat(f.purchasePrice), R(0))
        THEN "Purchase price must be 0 or greater" ELSE ""]

\* the body handleSubmit hands to assetService.createAsset
CreateAssetRequest(f) ==
    [symbol |-> ToUpperCase(f.symbol),
     name |-> Trim(f.name),
     quantity |-> ParseFloat(f.quantity),
     purchase_price |-> ParseFloat(f.purchasePrice)]

\* onChangeText of a field: the text is stored and the error of the field,
\* if there is one, is cleared
ChangeText(field, text) ==
    /\ form[field] # text
    /\ form' = [form EXCEPT ![field] = text]
    /\ errors' = [errors EXCEPT ![field] = ""]
    /\ UNCHANGED <<formLoading, created, alert>>

\* handleSubmit (the button is disabled while loading): validateForm, and
\* for a valid form setLoading(true) and the request of createAsset leaves
\* through the interceptor of the assets client
HandleSubmit ==
    /\ ~formLoading
    /\ alert = "none"
    /\ errors' = ValidateForm(form)
    /\ IF ValidateForm(form) = NoErrors
       THEN /\ formLoading' = TRUE
            /\ \E read \in TokenGet(secureStore) :
                  created' = [body |-> CreateAssetRequest(form),
                              header |-> Interceptor(read)]
       ELSE UNCHANGED <<formLoading, created>>
    /\ UNCHANGED <<form, alert>>

\* createAsset has resolved: the success dialog, the finally block
CreateResolved ==
    /\ created # Null
    /\ created' = Null
    /\ formLoading' = FALSE
    /\ alert' = "Success"
    /\ UNCHANGED <<form, errors>>

\* createAsset has rejected: the error dialog, the finally block
CreateRejected ==
    /\ created # Null
    /\ created' = Null
    /\ formLoading' = FALSE
    /\ alert' = "Error"
    /\ UNCHANGED <<form, errors>>

\* the user closes the dialog; OK of the success dialog is router.back(),
\* and the screen is mounted anew when it is opened again
CloseDialog ==
    /\ alert # "none"
    /\ alert' = "none"
    /\ IF alert = "Success"
       THEN /\ form' = EmptyForm
            /\ errors' = NoErrors
            /\ UNCHANGED <<formLoading, created>>
       ELSE UNCHANGED formVars

(***************************************************************************)
(* DashboardScreen: state, fetches and re-rendering                        *)
(***************************************************************************)
\* the snapshots the backend answers a dashboard fetch with
DashSnapshots == SnapshotsUpTo(DashHoldings)

\* a memo without dependencies: useMemo(compute, []) keeps its first value
UseMemoNoDeps(previous, depsChanged, data) == previous

\* a block that adds to a typeDistribution object declared outside of it: the
\* object keeps the sums of the run before
UseMemoSharedDistribution(previous, depsChanged, data) ==
    LET RECURSIVE distributeOnto(_, _)
        distributeOnto(dist, k) ==
            IF k = 0 THEN dist
            ELSE AddToType(distributeOnto(dist, k - 1), data.assets[k])
    IN  IF ~depsChanged THEN previous
        ELSE IF data = Null \/ Len(data.assets) = 0 THEN Analytics(data)
        ELSE [Analytics(data) EXCEPT !.typeDistribution =
                 distributeOnto(previous.typeDistribution, Len(data.assets))]

\* useMemo(compute, [portfolioData]): recomputed in the render that follows
\* a change of portfolioData, kept otherwise
UseMemo(previous, depsChanged, data) ==
    IF depsChanged THEN Analytics(data) ELSE previous

\* the first render of the screen
Init ==
    /\ portfolioData = Null
    /\ analytics = Analytics(Null)
    /\ loading = TRUE
    /\ refreshing = FALSE
    /\ inflight = {}
    /\ issued = 0
    /\ storedReq = 0
    /\ headers = <<>>
    /\ alert = "none"
    /\ firstCall = Null
    /\ InitProvider
    /\ secureStore = Null
    /\ live = {}
    /\ InitScreens

\* fetchPortfolioData up to its await: the request leaves
IssueFetch ==
    /\ issued < MaxFetches
    /\ issued' = issued + 1
    /\ inflight' = inflight \cup {issued + 1}
    /\ \E read \in TokenGet(secureStore) :
          headers' = Append(headers, Interceptor(read))

\* useFocusEffect: the screen gains focus (first on mount)
Focus ==
    /\ IssueFetch
    /\ UNCHANGED <<portfolioData, analytics, loading, refreshing, storedReq>>
    /\ UNCHANGED <<alert, offDashboard>>

\* handleRefresh: pull-to-refresh, offered once the loading view is gone
HandleRefresh ==
    /\ ~loading
    /\ refreshing' = TRUE
    /\ IssueFetch
    /\ UNCHANGED <<portfolioData, analytics, loading, storedReq, alert, offDashboard>>

\* which call's response portfolioData holds once call r has resolved
StoredAfter(r, stored) == r

\* a fetchPortfolioData without finally block, whose try block ends with
\* setLoading(false) only
FetchResolvedKeepsRefreshing(r, data) ==
    /\ r \in inflight
    /\ inflight' = inflight \ {r}
    /\ portfolioData' = AfterRender(data)
    /\ storedReq' = StoredAfter(r, storedReq)
    /\ analytics' = UseMemo(analytics, TRUE, data)
    /\ loading' = FALSE
    /\ UNCHANGED <<refreshing, issued, headers, alert, offDashboard>>

\* fetchPortfolioData after its await, getPortfolioValue resolved with data:
\* setPortfolioData(data), the finally block, and the render that follows
FetchResolved(r, data) ==
    /\ r \in inflight
    /\ inflight' = inflight \ {r}
    /\ portfolioData' = AfterRender(data)
    /\ storedReq' = StoredAfter(r, storedReq)
    /\ analytics' = UseMemo(analytics, TRUE, data)
    /\ loading' = FALSE
    /\ refreshing' = FALSE
    /\ UNCHANGED <<issued, headers, alert, offDashboard>>

\* a catch block that calls setPortfolioData(null)
FetchRejectedClearing(r) ==
    /\ r \in inflight
    /\ inflight' = inflight \ {r}
    /\ portfolioData' = Null
    /\ analytics' = UseMemo(analytics, TRUE, Null)
    /\ loading' = FALSE
    /\ refreshing' = FALSE
    /\ UNCHANGED <<storedReq, issued, headers, alert, offDashboard>>

\* fetchPortfolioData after its await, getPortfolioValue rejected:
\* console.error (a line of the developer console, no state of the app), the
\* finally block, and the render that follows
FetchRejected(r) ==
    /\ r \in inflight
    /\ inflight' = inflight \ {r}
    /\ analytics' = UseMemo(analytics, FALSE, portfolioData)
    /\ loading' = FALSE
    /\ refreshing' = FALSE
    /\ UNCHANGED <<portfolioData, storedReq, issued, headers, alert, offDashboard>>

Next ==
    \/ Focus
    \/ HandleRefresh
    \/ \E r \in 1..MaxFetches, data \in DashSnapshots : FetchResolved(r, data)
    \/ \E r \in 1..MaxFetches : FetchRejected(r)

Spec == Init /\ [][Next]_vars

\* every request that has left settles: the promise of getPortfolioValue is
\* resolved or rejected (a fetch stays in flight exactly as long as its
\* rejection is possible)
FetchesSettle == \A r \in 1..MaxFetches : WF_vars(FetchRejected(r))

SpecFair == Spec /\ FetchesSettle

\* setPortfolioData(data) and the render that follows: the analytics block
\* applied to one snapshot
ApplyEngine(data) ==
    /\ portfolioData' = AfterRender(data)
    /\ analytics' = UseMemo(analytics, TRUE, data)
    /\ UNCHANGED <<loading, refreshing, inflight, issued, storedReq, headers, alert>>

\* one application, to the freshly mounted screen, of the analytics block
\* to any snapshot of at most MaxHoldings holdings
NextEngine ==
    /\ portfolioData = Null
    /\ \E len \in 0..MaxHoldings :
         \E ts \in TypeChoices(len), ps \in [1..len -> Positions],
            pp \in [1..len -> PurchasePrices] :
              /\ ApplyEngine(Snapshot(HoldingList(ts, ps, pp, len)))
              /\ UNCHANGED offDashboard

SpecEngine == Init /\ [][NextEngine]_vars

\* the first run of the analytics block, on any snapshot of at most
\* RepeatHoldings holdings: the snapshot and the result are kept for comparison
InvokeFirst(data) ==
    /\ firstCall = Null
    /\ ApplyEngine(data)
    /\ firstCall' = [data |-> portfolioData', result |-> analytics',
                     between |-> FALSE]

\* a later run, on any snapshot a dashboard fetch returns
InvokeOther(data) ==
    /\ firstCall # Null
    /\ ApplyEngine(data)
    /\ firstCall' = [firstCall EXCEPT !.between = TRUE]

\* a later run on the snapshot of the first run
InvokeAgain ==
    /\ firstCall # Null
    /\ ApplyEngine(firstCall.data)
    /\ UNCHANGED firstCall

NextRepeat ==
    \/ \E data \in SnapshotsUpTo(RepeatHoldings) :
          InvokeFirst(data) /\ UNCHANGED <<authVars, screenVars>>
    \/ \E data \in DashSnapshots :
          InvokeOther(data) /\ UNCHANGED <<authVars, screenVars>>
    \/ InvokeAgain /\ UNCHANGED <<authVars, screenVars>>

SpecRepeat == Init /\ [][NextRepeat]_vars

\* the variables no handler of AddAssetScreen writes
offForm == <<portfolioData, analytics, loading, refreshing, inflight, issued,
             storedReq, headers, firstCall, authVars, assetsVars>>

NextForm ==
    \/ \E field \in {"symbol", "name"}, text \in NameTexts :
          ChangeText(field, text) /\ UNCHANGED offForm
    \/ \E field \in {"quantity", "purchasePrice"}, text \in NumberTexts :
          ChangeText(field, text) /\ UNCHANGED offForm
    \/ HandleSubmit /\ UNCHANGED offForm
    \/ CreateResolved /\ UNCHANGED offForm
    \/ CreateRejected /\ UNCHANGED offForm
    \/ CloseDialog /\ UNCHANGED offForm

SpecForm == Init /\ [][NextForm]_vars

(***************************************************************************)
(* AssetsScreen (app/(tabs)/assets.tsx): the list, its fetches, the        *)
(* deletion of an asset.  An asset is modelled by its id.                  *)
(***************************************************************************)
\* assets.filter(a => a.id !== id)
WithoutAsset(list, id) == SelectSeq(list, LAMBDA a : a.id # id)

\* the ids of a list of assets
IdsOf(list) == {list[i].id : i \in 1..Len(list)}

\* a call of fetchAssetsAndPrices that has come to its end, with the asset
\* list stored or with the dialog
Ended(call) == call.at \in {"stored", "failed"}

\* fetchAssetsAndPrices up to its first await: the request of
\* getPortfolioValue leaves
IssueAssetsFetch ==
    /\ Len(fetchCalls) < MaxAssetFetches
    /\ fetchCalls' = Append(fetchCalls, [at |-> "prices", response |-> Null])

\* useFocusEffect: the screen gains focus (first on mount)
AssetsFocus ==
    /\ IssueAssetsFetch
    /\ UNCHANGED <<shownAssets, portfolioValue, assetsLoading, assetsRefreshing,
                   deleteDialogVisible, assetToDelete, deleteCall,
                   serverAssets, deleted, alert>>

\* handleRefresh: pull-to-refresh of the list, which the loading view hides
AssetsRefresh ==
    /\ ~assetsLoading
    /\ assetsRefreshing' = TRUE
    /\ IssueAssetsFetch
    /\ UNCHANGED <<shownAssets, portfolioValue, assetsLoading, deleteDialogVisible,
                   assetToDelete, deleteCall, serverAssets, deleted, alert>>

\* getPortfolioValue has resolved: setPortfolioValue, and the request of
\* getAssets leaves
PricesResolved(r) ==
    /\ fetchCalls[r].at = "prices"
    /\ portfolioValue' = [assets |-> serverAssets]
    /\ fetchCalls' = [fetchCalls EXCEPT ![r].at = "assets"]
    /\ UNCHANGED <<shownAssets, assetsLoading, assetsRefreshing, deleteDialogVisible,
                   assetToDelete, deleteCall, serverAssets, deleted, alert>>

\* a catch block without a second request: the dialog at once, the finally block
PricesRejectedAlerting(r) ==
    /\ fetchCalls[r].at = "prices"
    /\ fetchCalls' = [fetchCalls EXCEPT ![r].at = "failed"]
    /\ alert' = "Error"
    /\ assetsLoading' = FALSE
    /\ assetsRefreshing' = FALSE
    /\ UNCHANGED <<shownAssets, portfolioValue, deleteDialogVisible, assetToDelete,
                   deleteCall, serverAssets, deleted>>

\* getPortfolioValue has rejected: the catch block, whose request of
\* getAssets leaves
PricesRejected(r) ==
    /\ fetchCalls[r].at = "prices"
    /\ fetchCalls' = [fetchCalls EXCEPT ![r].at = "retry"]
    /\ UNCHANGED <<shownAssets, portfolioValue, assetsLoading, assetsRefreshing,
                   deleteDialogVisible, assetToDelete, deleteCall, serverAssets,
                   deleted, alert>>

\* backend: the request of getAssets of call r is answered with the assets
\* the user has at that moment
ServerListsAssets(r) ==
    /\ fetchCalls[r].at \in {"assets", "retry"}
    /\ fetchCalls[r].response = Null
    /\ fetchCalls' = [fetchCalls EXCEPT ![r].response = [assets |-> serverAssets]]
    /\ UNCHANGED <<shownAssets, portfolioValue, assetsLoading, assetsRefreshing,
                   deleteDialogVisible, assetToDelete, deleteCall, serverAssets,
                   deleted, alert>>

\* getAssets has resolved, in the try block or in the catch block:
\* setAssets(assetsData), the finally block
AssetsResolved(r) ==
    /\ fetchCalls[r].at \in {"assets", "retry"}
    /\ fetchCalls[r].response # Null
    /\ shownAssets' = fetchCalls[r].response.assets
    /\ assetsLoading' = FALSE
    /\ assetsRefreshing' = FALSE
    /\ fetchCalls' = [fetchCalls EXCEPT ![r] = [at |-> "stored", response |-> Null]]
    /\ UNCHANGED <<portfolioValue, deleteDialogVisible, assetToDelete,
                   deleteCall, serverAssets, deleted, alert>>

\* getAssets has rejected.  In the try block: the catch block, whose request
\* of getAssets leaves.  In the catch block: the dialog, the finally block
AssetsRejected(r) ==
    /\ fetchCalls[r].at \in {"assets", "retry"}
    /\ IF fetchCalls[r].at = "assets"
       THEN /\ fetchCalls' = [fetchCalls EXCEPT
                                ![r] = [at |-> "retry", response |-> Null]]
            /\ UNCHANGED <<assetsLoading, assetsRefreshing, alert>>
       ELSE /\ fetchCalls' = [fetchCalls EXCEPT
                                ![r] = [at |-> "failed", response |-> Null]]
            /\ alert' = "Error"
            /\ assetsLoading' = FALSE
            /\ assetsRefreshing' = FALSE
    /\ UNCHANGED <<shownAssets, portfolioValue, deleteDialogVisible, assetToDelete,
                   deleteCall, serverAssets, deleted>>

\* handleDeletePress on an asset of the list shown
HandleDeletePress(asset) ==
    /\ ~assetsLoading
    /\ asset.id \in IdsOf(shownAssets)
    /\ assetToDelete' = asset
    /\ deleteDialogVisible' = TRUE
    /\ UNCHANGED <<shownAssets, portfolioValue, assetsLoading, assetsRefreshing,
                   fetchCalls, deleteCall, serverAssets, deleted, alert>>

\* onDismiss of the dialog
DismissDeleteDialog ==
    /\ deleteDialogVisible
    /\ deleteDialogVisible' = FALSE
    /\ UNCHANGED <<shownAssets, portfolioValue, assetsLoading, assetsRefreshing,
                   assetToDelete, fetchCalls, deleteCall, serverAssets, deleted,
                   alert>>

\* handleDeleteConfirm up to its await: the request of deleteAsset leaves; the
\* handler keeps the assets and the assetToDelete of the render it was made in
HandleDeleteConfirm ==
    /\ deleteDialogVisible
    /\ assetToDelete # Null
    /\ deleteCall = Null
    /\ deleteCall' = [assetToDelete |-> assetToDelete, assets |-> shownAssets,
                      answered |-> FALSE]
    /\ UNCHANGED <<shownAssets, portfolioValue, assetsLoading, assetsRefreshing,
                   deleteDialogVisible, assetToDelete, fetchCalls, serverAssets,
                   deleted, alert>>

\* backend: the asset is deleted
ServerDeletes ==
    /\ deleteCall # Null
    /\ ~deleteCall.answered
    /\ deleteCall.assetToDelete.id \in IdsOf(serverAssets)
    /\ serverAssets' = WithoutAsset(serverAssets, deleteCall.assetToDelete.id)
    /\ deleteCall' = [deleteCall EXCEPT !.answered = TRUE]
    /\ UNCHANGED <<shownAssets, portfolioValue, assetsLoading, assetsRefreshing,
                   deleteDialogVisible, assetToDelete, fetchCalls, deleted, alert>>

\* deleteAsset has resolved: setAssets without the asset, fetchAssetsAndPrices,
\* the success dialog, the finally block
DeleteResolved ==
    /\ deleteCall # Null
    /\ deleteCall.answered
    /\ shownAssets' = WithoutAsset(deleteCall.assets, deleteCall.assetToDelete.id)
    /\ IssueAssetsFetch
    /\ alert' = "Success"
    /\ deleteDialogVisible' = FALSE
    /\ assetToDelete' = Null
    /\ deleteCall' = Null
    /\ deleted' = deleted \cup {deleteCall.assetToDelete.id}
    /\ UNCHANGED <<portfolioValue, assetsLoading, assetsRefreshing, serverAssets>>

\* deleteAsset has rejected (the backend has no such asset, or the request
\* or its answer was lost): the error dialog, the finally block
DeleteRejected ==
    /\ deleteCall # Null
    /\ alert' = "Error"
    /\ deleteDialogVisible' = FALSE
    /\ assetToDelete' = Null
    /\ deleteCall' = Null
    /\ UNCHANGED <<shownAssets, portfolioValue, assetsLoading, assetsRefreshing,
                   fetchCalls, serverAssets, deleted>>

\* the variables no handler of AssetsScreen writes
offAssets == <<portfolioData, analytics, loading, refreshing, inflight, issued,
               storedReq, headers, firstCall, authVars, formVars>>

NextAssets ==
    \/ AssetsFocus /\ UNCHANGED offAssets
    \/ AssetsRefresh /\ UNCHANGED offAssets
    \/ \E r \in 1..Len(fetchCalls) : PricesResolved(r) /\ UNCHANGED offAssets
    \/ \E r \in 1..Len(fetchCalls) : PricesRejected(r) /\ UNCHANGED offAssets
    \/ \E r \in 1..Len(fetchCalls) : ServerListsAssets(r) /\ UNCHANGED offAssets
    \/ \E r \in 1..Len(fetchCalls) : AssetsResolved(r) /\ UNCHANGED offAssets
    \/ \E r \in 1..Len(fetchCalls) : AssetsRejected(r) /\ UNCHANGED offAssets
    \/ \E id \in IdsOf(shownAssets) :
          HandleDeletePress([id |-> id]) /\ UNCHANGED offAssets
    \/ DismissDeleteDialog /\ UNCHANGED offAssets
    \/ HandleDeleteConfirm /\ UNCHANGED offAssets
    \/ ServerDeletes /\ UNCHANGED offAssets
    \/ DeleteResolved /\ UNCHANGED offAssets
    \/ DeleteRejected /\ UNCHANGED offAssets

SpecAssets == Init /\ [][NextAssets]_vars

(***************************************************************************)
(* The session: AuthProvider's operations, the auth screens, the backend   *)
(***************************************************************************)
\* the app starts with nothing in SecureStore, or with the token of an
\* earlier session, which the backend still accepts or not
InitSession ==
    /\ portfolioData = Null
    /\ analytics = Analytics(Null)
    /\ loading = TRUE
    /\ refreshing = FALSE
    /\ inflight = {}
    /\ issued = 0
    /\ storedReq = 0
    /\ headers = <<>>
    /\ alert = "none"
    /\ firstCall = Null
    /\ InitProvider
    /\ secureStore \in {Null, SavedToken}
    /\ live \in SUBSET {SavedToken}
    /\ InitScreens

\* the render that follows a handler's state updates: the navigation effect
\* has to run when user, segments or isLoading changed
Rendered ==
    effectDue' = (<<user', route', isLoading'>> # <<user, route, isLoading>>)

\* React runs the effect of a render before it handles the next update: no
\* handler runs between a render and its effect
Settled == ~effectDue

\* an effect that only sends to the login screen
NavigationEffectLoginOnly ==
    /\ effectDue
    /\ route' = IF isLoading THEN route
                ELSE IF user = Null /\ ~InAuthGroup(route) THEN "(auth)/login"
                ELSE route
    /\ effectDue' = (route' # route)
    /\ UNCHANGED <<user, token, isLoading, checkAuth, signIn, signOut,
                   secureStore, live, expiredSeen>>
    /\ UNCHANGED <<portfolioData, analytics, loading, refreshing, inflight,
                   issued, storedReq, headers, alert, firstCall, screenVars>>

\* the navigation effect
NavigationEffect ==
    /\ effectDue
    /\ route' = IF isLoading THEN route
                ELSE IF user = Null /\ ~InAuthGroup(route) THEN "(auth)/login"
                ELSE IF user # Null /\ InAuthGroup(route) THEN "(tabs)"
                ELSE route
    /\ effectDue' = (route' # route)
    /\ UNCHANGED <<user, token, isLoading, checkAuth, signIn, signOut,
                   secureStore, live, expiredSeen>>
    /\ UNCHANGED <<portfolioData, analytics, loading, refreshing, inflight,
                   issued, storedReq, headers, alert, firstCall, screenVars>>

\* the state of the screens, which no operation of the provider writes
dashVars == <<portfolioData, analytics, loading, refreshing, inflight,
              issued, storedReq, headers, firstCall, screenVars>>

\* a checkAuthState without the test of savedToken: the current-user request
\* leaves whatever was read
CheckAuthReadAlwaysAsks ==
    /\ Settled
    /\ checkAuth.at = "get"
    /\ \E savedToken \in TokenGet(secureStore), read \in TokenGet(secureStore) :
          /\ token' = savedToken
          /\ checkAuth' = [at |-> "me", header |-> Interceptor(read)]
    /\ UNCHANGED <<user, isLoading, route, signIn, signOut, secureStore, live,
                   expiredSeen>>
    /\ Rendered
    /\ UNCHANGED <<dashVars, alert>>

\* checkAuthState: tokenStorage.get() has resolved.  With a token: setToken
\* and the current-user request leaves, its interceptor reading the storage
\* again; without: the finally block
CheckAuthRead ==
    /\ Settled
    /\ checkAuth.at = "get"
    /\ \E savedToken \in TokenGet(secureStore) :
          IF savedToken # Null
          THEN /\ token' = savedToken
               /\ \E read \in TokenGet(secureStore) :
                     checkAuth' = [at |-> "me", header |-> Interceptor(read)]
               /\ UNCHANGED isLoading
          ELSE /\ isLoading' = FALSE
               /\ checkAuth' = [at |-> "done"]
               /\ UNCHANGED token
    /\ UNCHANGED <<user, route, signIn, signOut, secureStore, live, expiredSeen>>
    /\ Rendered
    /\ UNCHANGED <<dashVars, alert>>

\* checkAuthState: getCurrentUser has resolved: setUser, the finally block
CheckAuthUser ==
    /\ Settled
    /\ checkAuth.at = "me"
    /\ Authorized(checkAuth.header)
    /\ user' = TheUser
    /\ isLoading' = FALSE
    /\ checkAuth' = [at |-> "done"]
    /\ UNCHANGED <<token, route, signIn, signOut, secureStore, live, expiredSeen>>
    /\ Rendered
    /\ UNCHANGED <<dashVars, alert>>

\* checkAuthState: getCurrentUser has rejected (the backend does not accept
\* the token, or the request failed): the catch block calls tokenStorage.remove
CheckAuthFailed ==
    /\ Settled
    /\ checkAuth.at = "me"
    /\ checkAuth' = [at |-> "remove"]
    /\ UNCHANGED <<user, token, isLoading, route, effectDue, signIn, signOut,
                   secureStore, live, expiredSeen>>
    /\ UNCHANGED <<dashVars, alert>>

\* checkAuthState: tokenStorage.remove() has resolved, the finally block
CheckAuthRemoved ==
    /\ Settled
    /\ checkAuth.at = "remove"
    /\ secureStore' \in TokenRemove(secureStore)
    /\ isLoading' = FALSE
    /\ checkAuth' = [at |-> "done"]
    /\ UNCHANGED <<user, token, route, signIn, signOut, live, expiredSeen>>
    /\ Rendered
    /\ UNCHANGED <<dashVars, alert>>

\* the screen of an operation, and the title of the dialog of its failure
ScreenOf(op) == IF op = "login" THEN "(auth)/login" ELSE "(auth)/register"
FailureTitle(op) == IF op = "login" THEN "Login Failed" ELSE "Registration Failed"

\* handleLogin / handleRegister with a form that fails the validation
SubmitInvalid(op) ==
    /\ Settled
    /\ route = ScreenOf(op)
    /\ alert = "none"
    /\ signIn = Null
    /\ alert' = "Error"
    /\ UNCHANGED <<authVars, dashVars>>

\* handleLogin / handleRegister with a valid form, up to the await in
\* login / register: setIsLoading(true), the request leaves through the
\* interceptor of the auth client
Submit(op) ==
    /\ Settled
    /\ route = ScreenOf(op)
    /\ alert = "none"
    /\ signIn = Null
    /\ isLoading' = TRUE
    /\ \E read \in TokenGet(secureStore) :
          signIn' = [op |-> op, at |-> "request", header |-> Interceptor(read)]
    /\ UNCHANGED <<user, token, route, checkAuth, signOut, secureStore, live,
                   expiredSeen>>
    /\ Rendered
    /\ UNCHANGED <<dashVars, alert>>

\* authService.login / register has resolved with a token the backend
\* accepts from now on: tokenStorage.set is called
SignInResolved ==
    /\ Settled
    /\ signIn # Null
    /\ signIn.at = "request"
    /\ live' = live \cup {FreshToken}
    /\ signIn' = [signIn EXCEPT !.at = "store"]
    /\ UNCHANGED <<user, token, isLoading, route, effectDue, checkAuth, signOut,
                   secureStore, expiredSeen>>
    /\ UNCHANGED <<dashVars, alert>>

\* tokenStorage.set has resolved: setToken, setUser, the finally block
SignInStored ==
    /\ Settled
    /\ signIn # Null
    /\ signIn.at = "store"
    /\ secureStore' \in TokenSet(secureStore, FreshToken)
    /\ token' = FreshToken
    /\ user' = TheUser
    /\ isLoading' = FALSE
    /\ signIn' = Null
    /\ UNCHANGED <<route, checkAuth, signOut, live, expiredSeen>>
    /\ Rendered
    /\ UNCHANGED <<dashVars, alert>>

\* a login / register whose catch block swallows the error and whose state is
\* reset instead: the screen goes on as after a success
SignInRejectedSwallowing ==
    /\ Settled
    /\ signIn # Null
    /\ signIn.at = "request"
    /\ isLoading' = FALSE
    /\ signIn' = Null
    /\ token' = Null
    /\ user' = Null
    /\ UNCHANGED <<route, checkAuth, signOut, secureStore, live, expiredSeen>>
    /\ Rendered
    /\ UNCHANGED <<dashVars, alert>>

\* authService.login / register has rejected: login rethrows, the finally
\* block, and the screen's catch block shows the dialog
SignInRejected ==
    /\ Settled
    /\ signIn # Null
    /\ signIn.at = "request"
    /\ isLoading' = FALSE
    /\ signIn' = Null
    /\ alert' = FailureTitle(signIn.op)
    /\ UNCHANGED <<user, token, route, checkAuth, signOut, secureStore, live,
                   expiredSeen>>
    /\ Rendered
    /\ UNCHANGED dashVars

\* the user closes the dialog
DismissAlert ==
    /\ alert # "none"
    /\ alert' = "none"
    /\ UNCHANGED <<authVars, dashVars>>

\* the Link of an auth screen to the other one
FollowLink ==
    /\ Settled
    /\ alert = "none"
    /\ InAuthGroup(route)
    /\ route' = IF route = "(auth)/login" THEN "(auth)/register" ELSE "(auth)/login"
    /\ UNCHANGED <<user, token, isLoading, checkAuth, signIn, signOut,
                   secureStore, live, expiredSeen>>
    /\ Rendered
    /\ UNCHANGED <<dashVars, alert>>

\* logout, called by the sign-out button of the dashboard or by the dialog of
\* the profile screen, up to its await
Logout ==
    /\ Settled
    /\ route = "(tabs)"
    /\ alert = "none"
    /\ ~signOut
    /\ signOut' = TRUE
    /\ UNCHANGED <<user, token, isLoading, route, effectDue, checkAuth, signIn,
                   secureStore, live, expiredSeen>>
    /\ UNCHANGED <<dashVars, alert>>

\* logout: tokenStorage.remove() has resolved: setToken(null), setUser(null),
\* router.replace('/(auth)/login')
LogoutRemoved ==
    /\ Settled
    /\ signOut
    /\ signOut' = FALSE
    /\ secureStore' \in TokenRemove(secureStore)
    /\ token' = Null
    /\ user' = Null
    /\ route' = "(auth)/login"
    /\ UNCHANGED <<isLoading, checkAuth, signIn, live, expiredSeen>>
    /\ Rendered
    /\ UNCHANGED <<dashVars, alert>>

\* backend: a token reaches the end of its life
TokenExpires ==
    /\ \E t \in live : live' = live \ {t}
    /\ UNCHANGED <<user, token, isLoading, route, effectDue, checkAuth, signIn,
                   signOut, secureStore, expiredSeen>>
    /\ UNCHANGED <<dashVars, alert>>

\* the snapshots the backend answers a fetch of the session with: a portfolio
\* without holdings, and one with a gaining holding
SessionSnapshots ==
    {Snapshot(<<>>), Snapshot(<<Holding(1, "STOCK", 1, 10, 11)>>)}

\* the dashboard is on the screen and gains focus: its fetch leaves
DashboardFocus ==
    /\ Settled
    /\ route = "(tabs)"
    /\ issued < SessionFetches
    /\ Focus

\* the backend answers fetch r with a snapshot
PortfolioResolved(r, data) ==
    /\ Settled
    /\ r \in inflight
    /\ Authorized(headers[r])
    /\ FetchResolved(r, data)

\* the backend rejects fetch r: it does not accept the token r was sent with
PortfolioUnauthorized(r) ==
    /\ Settled
    /\ r \in inflight
    /\ ~Authorized(headers[r])
    /\ analytics' = UseMemo(analytics, FALSE, portfolioData)
    /\ inflight' = inflight \ {r}
    /\ UNCHANGED portfolioData
    /\ loading' = FALSE
    /\ refreshing' = FALSE
    /\ expiredSeen' = (expiredSeen \/ (user # Null /\ headers[r] # Null
                                        /\ headers[r] = Interceptor(secureStore)))
    /\ UNCHANGED <<storedReq, issued, headers, alert, firstCall, screenVars>>
    /\ UNCHANGED <<user, token, isLoading, route, effectDue, checkAuth, signIn,
                   signOut, secureStore, live>>

\* fetch r fails on its way
PortfolioFailed(r) ==
    /\ Settled
    /\ FetchRejected(r)

NextSession ==
    \/ NavigationEffect
    \/ CheckAuthRead
    \/ CheckAuthUser
    \/ CheckAuthFailed
    \/ CheckAuthRemoved
    \/ \E op \in {"login", "register"} : SubmitInvalid(op)
    \/ \E op \in {"login", "register"} : Submit(op)
    \/ SignInResolved
    \/ SignInStored
    \/ SignInRejected
    \/ DismissAlert
    \/ FollowLink
    \/ Logout
    \/ LogoutRemoved
    \/ TokenExpires
    \/ DashboardFocus
    \/ \E r \in 1..SessionFetches, data \in SessionSnapshots : PortfolioResolved(r, data)
    \/ \E r \in 1..SessionFetches : PortfolioUnauthorized(r)
    \/ \E r \in 1..SessionFetches : PortfolioFailed(r)

SpecSession == InitSession /\ [][NextSession]_vars

\* what the runtime and the network guarantee: a pending effect runs, a
\* call of SecureStore completes, a request is answered or fails; nothing
\* makes the user act or a token expire
SessionFairness ==
    /\ WF_vars(NavigationEffect)
    /\ WF_vars(CheckAuthRead)
    /\ WF_vars(CheckAuthUser \/ CheckAuthFailed)
    /\ WF_vars(CheckAuthRemoved)
    /\ WF_vars(SignInResolved \/ SignInRejected)
    /\ WF_vars(SignInStored)
    /\ WF_vars(LogoutRemoved)
    /\ WF_vars(\E r \in 1..SessionFetches :
                  PortfolioUnauthorized(r) \/ PortfolioFailed(r))

SpecSessionFair == SpecSession /\ SessionFairness

(***************************************************************************)
(* Properties                                                              *)
(***************************************************************************)
\* a snapshot with at least one holding is stored
NonEmpty == portfolioData # Null /\ Len(portfolioData.assets) > 0

\* a number of the closed interval [0, 100]
InScoreRange(x) == LessEq(R(0), x) /\ LessEq(x, R(100))

RECURSIVE SumUpFrom(_, _)
SumUpFrom(vals, k) ==
    IF k > Len(vals) THEN R(0) ELSE Add(vals[k], SumUpFrom(vals, k + 1))

\* the sum of a sequence of numbers, added from the last one backwards
SumOf(vals) == SumUpFrom(vals, 1)

\* the gainLossPercent values of the stored holdings
Returns == [i \in 1..Len(portfolioData.assets) |->
              portfolioData.assets[i].gainLossPercent]

\* the types the stored holdings have
TypesHeld == {portfolioData.assets[i].type : i \in 1..Len(portfolioData.assets)}

\* the summed currentValue of the stored holdings of type t
ValueOfType(t) ==
    SumOf([i \in 1..Len(portfolioData.assets) |->
             IF portfolioData.assets[i].type = t
             THEN portfolioData.assets[i].currentValue ELSE R(0)])

\* the largest summed currentValue of a type
LargestTypeValue ==
    LET best == CHOOSE t \in TypesHeld :
                  \A u \in TypesHeld : LessEq(ValueOfType(u), ValueOfType(t))
    IN  ValueOfType(best)

\* C1: a response of an earlier fetch that settles after the response of a
\* later fetch was stored is discarded: the stored snapshot is never replaced
\* by the response of an earlier call.
C1_StaleResponseDiscarded == [][storedReq' >= storedReq]_vars

\* C2: in every state the analytics result is the engine applied to the
\* stored snapshot, whatever fetches succeeded or failed before.
C2_AnalyticsOfStoredSnapshot == analytics = Analytics(portfolioData)

\* C2 witness: a snapshot with a holding is stored, later fetches have
\* failed, nothing is in flight
C2_Witness ==
    /\ NonEmpty
    /\ storedReq = 1
    /\ issued = MaxFetches
    /\ inflight = {}

\* C3: with holdings and totalValue 0 the concentration counts as 0:
\* riskScore = min(100, 5 * volatility) and
\* diversificationScore = min(100, 20 * numTypes + 30), both finite numbers.
C3_ZeroTotalValueDefined ==
    (NonEmpty /\ portfolioData.totalValue = R(0)) =>
        /\ IsFin(analytics.riskScore)
        /\ IsFin(analytics.diversificationScore)
        /\ analytics.riskScore = MathMin(R(100), Mul(R(5), analytics.volatility))
        /\ analytics.diversificationScore =
               MathMin(R(100), R(20 * Cardinality(TypesHeld) + 30))

\* C4: with no snapshot stored, or a snapshot without holdings, the result
\* is the zero result.
C4_EmptyInputResult ==
    (portfolioData = Null \/ Len(portfolioData.assets) = 0) =>
        /\ analytics.topPerformer = Null
        /\ analytics.worstPerformer = Null
        /\ analytics.avgReturn = R(0)
        /\ analytics.volatility = R(0)
        /\ analytics.typeDistribution = <<>>
        /\ analytics.riskScore = R(0)
        /\ analytics.diversificationScore = R(0)
        /\ analytics.totalAssets = 0
        /\ analytics.totalGainers = 0
        /\ analytics.totalLosers = 0

\* C4 witness: a fetch has stored a snapshot without holdings
C4_Witness == portfolioData # Null /\ Len(portfolioData.assets) = 0 /\ storedReq > 0

\* C5: with holdings, riskScore = min(100, 5 * volatility + 50 * concentration)
\* for concentration = largest type value / totalValue, and 0 <= riskScore <= 100.
C5_RiskScoreFormulaAndRange ==
    NonEmpty =>
        /\ analytics.riskScore =
               MathMin(R(100),
                       Add(Mul(R(5), analytics.volatility),
                           Mul(R(50), Div(LargestTypeValue, portfolioData.totalValue))))
        /\ InScoreRange(analytics.riskScore)

\* C6: with holdings, diversificationScore =
\* min(100, 20 * numDistinctTypes + 30 * (1 - concentration)), and
\* 0 <= diversificationScore <= 100.
C6_DiversificationFormulaAndRange ==
    NonEmpty =>
        /\ analytics.diversificationScore =
               MathMin(R(100),
                       Add(R(20 * Cardinality(TypesHeld)),
                           Mul(R(30), Sub(R(1), Div(LargestTypeValue,
                                                    portfolioData.totalValue)))))
        /\ InScoreRange(analytics.diversificationScore)

\* the place in the stored list of the holding h
PlaceOf(h) == CHOOSE i \in 1..Len(portfolioData.assets) : portfolioData.assets[i] = h

\* C7: with holdings, topPerformer is a holding of the largest
\* gainLossPercent, and of those the first one in snapshot order.
C7_TopPerformerFirstMaximum ==
    NonEmpty =>
        /\ \E i \in 1..Len(portfolioData.assets) :
               portfolioData.assets[i] = analytics.topPerformer
        /\ \A j \in 1..Len(portfolioData.assets) :
               /\ LessEq(Returns[j], analytics.topPerformer.gainLossPercent)
               /\ j < PlaceOf(analytics.topPerformer) =>
                      Less(Returns[j], analytics.topPerformer.gainLossPercent)

\* C7 witness: the largest gainLossPercent is shared by two holdings, and a
\* smaller one comes first
C7_Witness ==
    /\ NonEmpty
    /\ Len(portfolioData.assets) >= 3
    /\ Less(Returns[1], Returns[2])
    /\ Returns[2] = Returns[3]
    /\ analytics.topPerformer = portfolioData.assets[2]

\* C8 as claimed: with holdings, worstPerformer is a holding of the smallest
\* gainLossPercent, and of those the first one in snapshot order.
C8_WorstPerformerFirstMinimum ==
    NonEmpty =>
        /\ \E i \in 1..Len(portfolioData.assets) :
               portfolioData.assets[i] = analytics.worstPerformer
        /\ \A j \in 1..Len(portfolioData.assets) :
               /\ LessEq(analytics.worstPerformer.gainLossPercent, Returns[j])
               /\ j < PlaceOf(analytics.worstPerformer) =>
                      Less(analytics.worstPerformer.gainLossPercent, Returns[j])

\* C8 as amended: with holdings, worstPerformer is a holding of the smallest
\* gainLossPercent, and of those the last one in snapshot order.
C8_WorstPerformerLastMinimum ==
    NonEmpty =>
        /\ \E i \in 1..Len(portfolioData.assets) :
               portfolioData.assets[i] = analytics.worstPerformer
        /\ \A j \in 1..Len(portfolioData.assets) :
               /\ LessEq(analytics.worstPerformer.gainLossPercent, Returns[j])
               /\ j > PlaceOf(analytics.worstPerformer) =>
                      Less(analytics.worstPerformer.gainLossPercent, Returns[j])

\* C8 witness: the smallest gainLossPercent is shared by two holdings, and a
\* larger one comes last
C8_Witness ==
    /\ NonEmpty
    /\ Len(portfolioData.assets) >= 3
    /\ Returns[1] = Returns[2]
    /\ Less(Returns[2], Returns[3])
    /\ analytics.worstPerformer = portfolioData.assets[2]

\* C9: with n holdings, n * avgReturn is the sum of gainLossPercent, in
\* whatever order it is taken and whatever the sizes of the positions.
C9_AvgReturnIsMean ==
    NonEmpty =>
        Mul(R(Len(portfolioData.assets)), analytics.avgReturn) = SumOf(Returns)

\* C9 witness: three holdings of different sizes whose mean is no integer
C9_Witness ==
    /\ NonEmpty
    /\ Len(portfolioData.assets) = 3
    /\ portfolioData.assets[1].currentValue # portfolioData.assets[2].currentValue
    /\ portfolioData.assets[1].quantity # portfolioData.assets[3].quantity
    /\ analytics.avgReturn.d = 3

\* the squared deviations of the stored returns from avgReturn
SquaredDeviations ==
    [i \in 1..Len(portfolioData.assets) |->
        Pow2(Sub(Returns[i], analytics.avgReturn))]

C10_EqualReturnsReached ==
    /\ NonEmpty
    /\ Len(portfolioData.assets) >= 2
    /\ analytics.volatility = R(0)

\* the currentValue of the stored holdings, in snapshot order
CurrentValues == [i \in 1..Len(portfolioData.assets) |->
                    portfolioData.assets[i].currentValue]

\* C11: with holdings, typeDistribution has one key for each type held, the
\* value of a type is the sum of currentValue over the holdings of that type,
\* and the values add up to the sum of currentValue over all holdings.
C11_TypeDistributionSumsPerType ==
    NonEmpty =>
        /\ \A t \in TypesHeld :
               /\ Cardinality({i \in 1..Len(analytics.typeDistribution) :
                                 analytics.typeDistribution[i].key = t}) = 1
               /\ Get(analytics.typeDistribution, t) = ValueOfType(t)
        /\ \A i \in 1..Len(analytics.typeDistribution) :
               analytics.typeDistribution[i].key \in TypesHeld
        /\ SumOf(Values(analytics.typeDistribution)) = SumOf(CurrentValues)

\* C11 witness: two holdings of one type with different values, a holding of
\* another type between them
C11_Witness ==
    /\ NonEmpty
    /\ Len(portfolioData.assets) >= 3
    /\ portfolioData.assets[1].type = portfolioData.assets[3].type
    /\ portfolioData.assets[2].type # portfolioData.assets[1].type
    /\ Sign(CurrentValues[1]) > 0
    /\ Sign(CurrentValues[3]) > 0
    /\ CurrentValues[1] # CurrentValues[3]
    /\ Len(analytics.typeDistribution) = 2

\* C12: no key of typeDistribution maps to 0: a type whose holdings are worth
\* nothing has no key, and the number of types in diversificationScore is the
\* number of types whose holdings are worth something.
C12_ZeroValueTypeAbsent ==
    NonEmpty =>
        /\ \A i \in 1..Len(analytics.typeDistribution) :
               analytics.typeDistribution[i].value # R(0)
        /\ Len(analytics.typeDistribution) =
               Cardinality({t \in TypesHeld : ValueOfType(t) # R(0)})
        /\ analytics.diversificationScore =
               DiversificationScore(
                   Cardinality({t \in TypesHeld : ValueOfType(t) # R(0)}),
                   Concentration(analytics.typeDistribution,
                                 portfolioData.totalValue))

\* the number of stored holdings at places k.. whose gainLoss has the sign sgn
RECURSIVE CountSignFrom(_, _)
CountSignFrom(sgn, k) ==
    IF k > Len(portfolioData.assets) THEN 0
    ELSE (IF Sign(portfolioData.assets[k].gainLoss) = sgn THEN 1 ELSE 0)
         + CountSignFrom(sgn, k + 1)

\* C13: totalGainers counts the holdings with gainLoss > 0, totalLosers those
\* with gainLoss < 0, and a holding with gainLoss = 0 is in neither count:
\* totalGainers + totalLosers = totalAssets - number of holdings with gainLoss 0.
C13_GainersAndLosers ==
    portfolioData # Null =>
        /\ analytics.totalGainers = CountSignFrom(1, 1)
        /\ analytics.totalLosers = CountSignFrom(-1, 1)
        /\ analytics.totalGainers + analytics.totalLosers
               = analytics.totalAssets - CountSignFrom(0, 1)

\* C13 witness: a gaining, a losing and an even holding are stored
C13_Witness ==
    /\ NonEmpty
    /\ CountSignFrom(1, 1) >= 1
    /\ CountSignFrom(-1, 1) >= 1
    /\ CountSignFrom(0, 1) >= 1
    /\ analytics.totalAssets = Len(portfolioData.assets)

C15_StoredSnapshotUntouched ==
    portfolioData # Null =>
        /\ \A i \in 1..Len(portfolioData.assets) :
               LET h == portfolioData.assets[i]
               IN  h = Holding(i, h.type, h.quantity, h.purchasePrice,
                               h.currentPrice)
        /\ portfolioData.totalValue =
               SumValues(portfolioData.assets, Len(portfolioData.assets))

\* C15 witness: a stored list that is in neither of the two sorted orders:
\* the top performer is not its first holding, the largest holding of the
\* distribution is not its first holding
C15_Witness ==
    /\ NonEmpty
    /\ Len(portfolioData.assets) >= 3
    /\ analytics.topPerformer # portfolioData.assets[1]
    /\ GetAssetDistribution(portfolioData)[1].id # 1
    /\ GetAssetDistribution(portfolioData)[1].id # analytics.topPerformer.id
    /\ "percentage" \in DOMAIN GetAssetDistribution(portfolioData)[1]

\* a step in which a call of fetchPortfolioData ends without storing its
\* response: getPortfolioValue has rejected
FetchFailedStep ==
    /\ inflight' \subseteq inflight
    /\ inflight' # inflight
    /\ storedReq' = storedReq

\* C16: a failed fetch leaves the stored snapshot as it is, and while no
\* fetch has succeeded portfolioData is null and the analytics result is the
\* zero result, derived from no snapshot.
C16_FailedFetchKeepsSnapshot ==
    /\ [][FetchFailedStep => portfolioData' = portfolioData]_vars
    /\ [](storedReq = 0 => (portfolioData = Null /\ analytics = EmptyAnalytics))

\* C16 witness: two fetches have failed, none has succeeded, the loading view
\* is gone
C16_Witness ==
    /\ storedReq = 0
    /\ portfolioData = Null
    /\ issued >= 2
    /\ inflight = {}
    /\ ~loading

\* C16, second witness state: a fetch has failed after a snapshot with a
\* holding was stored
C16_FailedAfterStored ==
    /\ NonEmpty
    /\ storedReq = 1
    /\ issued = 2
    /\ inflight = {}

\* C17: every failed fetch of the dashboard puts an error dialog on the
\* screen.
C17_FailedFetchAlerts == [][FetchFailedStep => alert' # "none"]_vars

\* the session is over: nothing stored, nobody logged in, the login screen
SessionEnded ==
    /\ secureStore = Null
    /\ user = Null
    /\ token = Null
    /\ route = "(auth)/login"

\* C18: once the backend has rejected a request of the logged-in user because
\* the stored token has expired, the session ends: the stored token is
\* removed, user and token are null, the login screen is shown.
C18_ExpiredTokenEndsSession == expiredSeen ~> SessionEnded

\* nothing is in progress in the provider: isLoading is false and the
\* navigation effect has run
Quiescent == ~isLoading /\ ~effectDue

\* C19: with isLoading false, user = null outside the (auth) group leads to
\* the login route, user # null inside the (auth) group leads to (tabs), and
\* in a quiescent state the route is in the (auth) group exactly when user is
\* null.
C19_ProtectedRoutes ==
    /\ (~isLoading /\ user = Null /\ ~InAuthGroup(route)) ~> (route = "(auth)/login")
    /\ (~isLoading /\ user # Null /\ InAuthGroup(route)) ~> (route = "(tabs)")
    /\ [](Quiescent => (InAuthGroup(route) <=> user = Null))

\* C19 witness: a login has just succeeded on the login screen, the
\* navigation effect is about to run
C19_Witness ==
    /\ ~isLoading
    /\ user # Null
    /\ token = FreshToken
    /\ route = "(auth)/login"
    /\ effectDue

\* C19, second witness state: checkAuthState found nobody, the dashboard is
\* on the screen and the navigation effect is about to run
C19_NobodyOnDashboard ==
    /\ ~isLoading
    /\ user = Null
    /\ route = "(tabs)"
    /\ effectDue

\* checkAuthState reads the storage of an app that started with nothing
\* stored and in which nobody has signed in since
ReadsNoToken ==
    /\ checkAuth.at = "get" /\ checkAuth'.at # "get"
    /\ secureStore = Null /\ user = Null /\ token = Null

\* C20: with nothing in secure storage, checkAuthState goes from reading the
\* storage to its end without a current-user request, with user = null,
\* token = null and isLoading = false; the dashboard is then left for the
\* login screen by the navigation effect, which that end makes run.
C20_NoTokenStartsAtLogin ==
    /\ [][ReadsNoToken =>
            (/\ checkAuth'.at = "done"
             /\ user' = Null
             /\ token' = Null
             /\ ~isLoading'
             /\ InAuthGroup(route') \/ effectDue')]_vars
    /\ (checkAuth.at = "done" /\ effectDue /\ ~isLoading /\ user = Null
          /\ token = Null /\ ~InAuthGroup(route))
         ~> (route = "(auth)/login" /\ user = Null /\ token = Null /\ ~isLoading)

\* C20 witness: the app started with nothing stored, checkAuthState is done
\* and the login screen is shown
C20_Witness ==
    /\ checkAuth.at = "done"
    /\ secureStore = Null
    /\ user = Null
    /\ token = Null
    /\ ~isLoading
    /\ route = "(auth)/login"
    /\ signIn = Null
    /\ alert = "none"
    /\ ~effectDue

\* login / register comes to its end after authService has resolved
SignInCompletes ==
    signIn # Null /\ signIn.at = "store" /\ signIn' = Null

\* C21: when login or register has resolved with the token of the response,
\* secure storage holds that token, the context holds it as token and the
\* user of the response as user, and the stored token is the context's token.
C21_SignInStoresToken ==
    [][SignInCompletes =>
          (/\ secureStore' = FreshToken
           /\ token' = FreshToken
           /\ user' = TheUser
           /\ secureStore' = token')]_vars

\* C22: every request that leaves through the auth client (login, register,
\* current user) or the prices client (portfolio value) carries the header
\* Authorization: Bearer T when secure storage holds T at the time it is sent,
\* and no Authorization header when secure storage holds nothing.
C22_RequestsCarryStoredToken ==
    [][/\ (issued' = issued + 1 =>
              headers'[issued'] = Interceptor(secureStore))
       /\ (checkAuth.at = "get" /\ checkAuth'.at = "me" =>
              checkAuth'.header = Interceptor(secureStore))
       /\ (signIn = Null /\ signIn' # Null =>
              signIn'.header = Interceptor(secureStore))]_vars

\* logout comes to its end
LogoutCompletes == signOut /\ ~signOut'

\* C23: when logout has completed, secure storage holds no token, the context
\* has token = null and user = null, the route is the login screen, and the
\* caller of logout has nothing to report (logout does not reject).
C23_LogoutClearsSession ==
    [][LogoutCompletes =>
          (/\ secureStore' = Null
           /\ token' = Null
           /\ user' = Null
           /\ route' = "(auth)/login"
           /\ alert' = alert)]_vars

\* checkAuthState comes to its end after the current-user request has failed
CheckAuthGivesUp == checkAuth.at = "remove" /\ checkAuth'.at = "done"

\* C27: whenever isLoading is false, token is non-null exactly when user is
\* non-null; and when checkAuthState has found a saved token whose
\* current-user request failed, it ends with user = null, token = null and
\* the saved token removed from secure storage.
C27_TokenIffUser ==
    /\ [](~isLoading => ((token # Null) <=> (user # Null)))
    /\ [][CheckAuthGivesUp =>
            (user' = Null /\ token' = Null /\ secureStore' = Null)]_vars

\* login / register comes to its end after authService has rejected
SignInFails ==
    signIn # Null /\ signIn.at = "request" /\ signIn' = Null

\* C28: when authService.login (register) rejects, login (register) rethrows
\* to the screen, whose catch block shows the failure dialog; secure storage,
\* token and user are as before, and isLoading is false again.
C28_FailedSignInChangesNothing ==
    [][SignInFails =>
          (/\ alert' = FailureTitle(signIn.op)
           /\ secureStore' = secureStore
           /\ token' = token
           /\ user' = user
           /\ ~isLoading')]_vars

\* C28 witness: a login has been rejected while a session was there: the
\* failure dialog is shown, isLoading is false, and the token and the user of
\* the session are still in place
C28_Witness ==
    /\ alert = "Login Failed"
    /\ signIn = Null
    /\ ~isLoading
    /\ token # Null
    /\ user # Null
    /\ secureStore # Null

\* C30: a token that a successful login or register has written to secure
\* storage stays there until logout is invoked: a step that is not the end of
\* a logout (in particular the end of a startup checkAuthState) neither
\* removes nor replaces it.
C30_LoginTokenStays ==
    [][(secureStore = FreshToken /\ ~signOut) => secureStore' = FreshToken]_vars

\* C26: on the dashboard, when every issued fetch settles, loading and
\* refreshing become false after a fetch has been issued; and in every state
\* where a fetch has settled and none is in flight, loading and refreshing
\* are both false.
C26_LoadingEnds ==
    /\ (inflight # {}) ~> (~loading /\ ~refreshing)
    /\ []((issued > Cardinality(inflight) /\ inflight = {})
            => (~loading /\ ~refreshing))

\* C26 witness: two overlapping fetches have settled, the one issued first
\* as the last, and the flags are down
C26_Witness ==
    /\ issued = 2
    /\ inflight = {}
    /\ storedReq = 1
    /\ ~loading
    /\ ~refreshing

\* what is required of a form for createAsset to be invoked
SubmittableSymbol == Trim(form.symbol) # <<>>
SubmittableName == Trim(form.name) # <<>>
SubmittableQuantity ==
    LET quantity == ParseFloat(form.quantity)
    IN  IsFin(quantity) /\ Less(R(0), quantity)
SubmittablePrice ==
    LET price == ParseFloat(form.purchasePrice)
    IN  IsFin(price) /\ LessEq(R(0), price)
Submittable ==
    SubmittableSymbol /\ SubmittableName /\ SubmittableQuantity /\ SubmittablePrice

\* C25: a submission of the add-asset form invokes createAsset only when
\* symbol and name are non-blank after trimming, quantity is a number greater
\* than 0 and purchase price a number of at least 0; for any other form no
\* request is sent and the error message of each failing field is set.
C25_CreateOnlyValidAssets ==
    [][HandleSubmit =>
          IF Submittable
          THEN created' # Null
          ELSE /\ created' = Null
               /\ ~SubmittableSymbol => errors'.symbol # ""
               /\ ~SubmittableName => errors'.name # ""
               /\ ~SubmittableQuantity => errors'.quantity # ""
               /\ ~SubmittablePrice => errors'.purchasePrice # ""]_vars

\* call r of fetchAssetsAndPrices comes to its end
AssetsFetchEnds(r) == ~Ended(fetchCalls[r]) /\ Ended(fetchCalls'[r])

\* C24: on the assets screen a call of fetchAssetsAndPrices ends with the
\* asset list it has fetched stored, without a dialog, also after its
\* portfolio-value request has failed; the error dialog is raised only when
\* the request of the asset list made after a failure has failed as well;
\* and every call ends with loading = false and refreshing = false.
C24_AssetsSurvivePriceFailure ==
    [][\A r \in 1..Len(fetchCalls) :
          AssetsFetchEnds(r) =>
             /\ ~assetsLoading' /\ ~assetsRefreshing'
             /\ fetchCalls[r].at \in {"assets", "retry"}
             /\ IF fetchCalls'[r].at = "stored"
                THEN /\ fetchCalls[r].response # Null
                     /\ shownAssets' = fetchCalls[r].response.assets
                     /\ alert' = alert
                ELSE /\ fetchCalls[r].at = "retry"
                     /\ alert' = "Error"
                     /\ shownAssets' = shownAssets]_vars

\* C24 witness: the only call made has ended with the asset list on the
\* screen and without a dialog, and no portfolio value was ever stored: its
\* portfolio-value request has failed
C24_Witness ==
    /\ Len(fetchCalls) = 1
    /\ fetchCalls[1].at = "stored"
    /\ portfolioValue = Null
    /\ Len(shownAssets) > 0
    /\ alert = "none"
    /\ ~assetsLoading
    /\ ~assetsRefreshing

\* C29: on the assets screen, once deleteAsset(id) has resolved and every
\* call of fetchAssetsAndPrices, issued before or after, has come to its end,
\* the list shown does not contain id.
C29_DeletedAssetGone ==
    (/\ deleteCall = Null
     /\ \A r \in 1..Len(fetchCalls) : Ended(fetchCalls[r]))
       => \A id \in deleted : id \notin IdsOf(shownAssets)

====
